---- MODULE Spec2Model ----
(***************************************************************************)
(* temp-write-sync: the registry of temporary paths (tempFiles), the       *)
(* creation operations that fill it, cleanupSync / cleanupAllSync /        *)
(* excludeFromCleanup, and the process-termination handlers installed by   *)
(* registerCleanup.                                                        *)
(*                                                                         *)
(* A string is a sequence of lexical tokens ("temp-", ".", "txt", "/"), a   *)
(* path is a sequence of names, each a string without "/"; the file system *)
(* is a function from the existing paths to their kind.                    *)
(* crypto.randomBytes(6) is modelled as never repeating inside one         *)
(* process: the n-th call yields the fragment "r<n>".                      *)
(***************************************************************************)
EXTENDS Integers, Sequences, FiniteSets, TLC

VARIABLES
    disk,               \* the file system: existing path -> [kind, mode],
                        \* kind "file" | "dir", mode the nine permission bits
    tempFiles,          \* the Set tempFiles, in insertion order
    cleanupRegistered,  \* the flag cleanupRegistered
    handlers,           \* process.on listeners installed by this module, per event
    nextId,             \* number of crypto.randomBytes calls made so far
    phase,              \* "running" | "exiting" | "ended"
    exitCode,           \* the status the process ends with (-1 while running)
    cause,              \* the event that began termination ("none" while running)
    trackedAtTerm,      \* history: the registry when termination began
    failedAtTerm,       \* history: paths a listener's cleanupSync returned false for
    run,                \* history: successful tracked creations since the registry
                        \* was last empty, -1 once any other call intervened
    last                \* the last call of the public API, or the last listener
                        \* run, and what it returned

vars == <<disk, tempFiles, cleanupRegistered, handlers, nextId, phase,
          exitCode, cause, trackedAtTerm, failedAtTerm, run, last>>

(***************************************************************************)
(* Bounds                                                                  *)
(***************************************************************************)
\* at most this many calls of crypto.randomBytes (one per creation call)
MaxIds == 2
\* at most this many paths whose removal fails during one call
MaxFailing == 1

(***************************************************************************)
(* Paths and the file system primitives                                    *)
(***************************************************************************)
\* os.tmpdir()
TmpDir == << <<"tmp">> >>
\* a caller-chosen target directory that does not exist at process start
OutDir == << <<"tmp">>, <<"out">> >>
\* a file of the caller, present at process start, never created by this module
UserFile == << <<"tmp">>, <<"user", ".", "txt">> >>
\* a path that never exists
MissingPath == << <<"non">>, <<"existent", ".", "txt">> >>

Events == {"exit", "SIGINT", "SIGTERM", "uncaughtException", "unhandledRejection"}

Range(s) == {s[i] : i \in 1..Len(s)}

\* the names of a string, split at its "/" tokens (empty names dropped)
RECURSIVE SplitNames(_, _, _)
SplitNames(str, i, cur) ==
    IF i > Len(str)
    THEN IF cur = <<>> THEN <<>> ELSE <<cur>>
    ELSE IF str[i] = "/"
         THEN (IF cur = <<>> THEN <<>> ELSE <<cur>>) \o SplitNames(str, i + 1, <<>>)
         ELSE SplitNames(str, i + 1, Append(cur, str[i]))

\* path.normalize over names: "." is dropped, ".." leaves the directory
RECURSIVE Normalize(_, _)
Normalize(acc, names) ==
    IF names = <<>> THEN acc
    ELSE IF Head(names) = <<".">> THEN Normalize(acc, Tail(names))
    ELSE IF Head(names) = <<"..">>
         THEN Normalize(IF acc = <<>> THEN acc ELSE SubSeq(acc, 1, Len(acc) - 1),
                        Tail(names))
    ELSE Normalize(Append(acc, Head(names)), Tail(names))

\* path.join(dir, name)
Join(dir, name) == Normalize(dir, SplitNames(name, 1, <<>>))

\* path.extname(p): from the last "." of the last name, unless it starts the name
ExtName(p) ==
    LET name == p[Len(p)]
        dots == {i \in 2..Len(name) : name[i] = "."}
    IN IF dots = {} THEN <<>>
       ELSE LET i == CHOOSE j \in dots : \A k \in dots : k <= j
            IN SubSeq(name, i, Len(name))

IsUnder(q, p) == Len(q) > Len(p) /\ SubSeq(q, 1, Len(p)) = p

Prefixes(p) == {SubSeq(p, 1, n) : n \in 1..Len(p)}

\* fs.existsSync
ExistsSync(dk, p) == p \in DOMAIN dk

\* fs.statSync(p).isDirectory()
IsDirectory(dk, p) == dk[p].kind = "dir"

Descendants(dk, p) == {q \in DOMAIN dk : IsUnder(q, p)}

RemoveAll(dk, S) == [q \in (DOMAIN dk) \ S |-> dk[q]]

\* whether fs.statSync / fs.unlinkSync / fs.rmSync raises for p
RemovalFails(dk, lk, p) ==
    \/ p \in lk
    \/ IsDirectory(dk, p) /\ Descendants(dk, p) \cap lk # {}

\* fs.unlinkSync(p), and fs.rmSync(p, {recursive, force}) for a directory: the
\* outcomes [threw, disk].  A recursive removal that raises part-way may already
\* have removed entries: both extremes are outcomes (nothing removed, and
\* everything removed that could be).
RmOutcomes(dk, lk, p) ==
    IF ~IsDirectory(dk, p)
    THEN IF p \in lk
         THEN {[threw |-> TRUE, disk |-> dk]}
         ELSE {[threw |-> FALSE, disk |-> RemoveAll(dk, {p})]}
    ELSE IF ~RemovalFails(dk, lk, p)
         THEN {[threw |-> FALSE, disk |-> RemoveAll(dk, {p} \cup Descendants(dk, p))]}
         ELSE LET removable == {q \in Descendants(dk, p) :
                                   /\ q \notin lk
                                   /\ Descendants(dk, q) \cap lk = {}}
              IN {[threw |-> TRUE, disk |-> dk],
                  [threw |-> TRUE, disk |-> RemoveAll(dk, removable)]}

\* the permission bits of mode that umask leaves: mode & ~umask, bit i upwards
RECURSIVE Masked(_, _, _)
Masked(mode, umask, i) ==
    IF i > 8 THEN 0
    ELSE (IF (mode \div 2^i) % 2 = 1 /\ (umask \div 2^i) % 2 = 0 THEN 2^i ELSE 0)
         + Masked(mode, umask, i + 1)

\* the mode fs.mkdirSync and fs.writeFileSync use when none is passed
DefaultDirMode == 511
DefaultFileMode == 438
\* the umask of a process started from an ordinary shell (0o022)
DefaultUmask == 18

\* fs.mkdirSync(d, {recursive: true}): [threw, disk]
MkdirSync(dk, d, umask, fault) ==
    IF fault \/ \E q \in Prefixes(d) : ExistsSync(dk, q) /\ ~IsDirectory(dk, q)
    THEN [threw |-> TRUE, disk |-> dk]
    ELSE [threw |-> FALSE,
          disk |-> [q \in (DOMAIN dk) \cup Prefixes(d) |->
                       IF q \in DOMAIN dk THEN dk[q]
                       ELSE [kind |-> "dir",
                             mode |-> Masked(DefaultDirMode, umask, 0)]]]

\* fs.writeFileSync(p, content, {mode}): [threw, disk]; the mode is given to a
\* file the call creates, a file that is there keeps the mode it has and gets
\* the new content
WriteFileSync(dk, p, content, mode, umask, fault) ==
    IF \/ fault
       \/ ~ExistsSync(dk, SubSeq(p, 1, Len(p) - 1))
       \/ ~IsDirectory(dk, SubSeq(p, 1, Len(p) - 1))
       \/ (ExistsSync(dk, p) /\ IsDirectory(dk, p))
    THEN [threw |-> TRUE, disk |-> dk]
    ELSE [threw |-> FALSE,
          disk |-> [q \in (DOMAIN dk) \cup {p} |->
                       IF q # p THEN dk[q]
                       ELSE [kind |-> "file",
                             mode |-> IF ExistsSync(dk, p) THEN dk[p].mode
                                      ELSE Masked(mode, umask, 0),
                             content |-> content]]]

(***************************************************************************)
(* The registry                                                            *)
(***************************************************************************)
\* tempFiles.add(p): a Set keeps the first insertion's position
SetAdd(tf, p) == IF p \in Range(tf) THEN tf ELSE Append(tf, p)

\* tempFiles.delete(p)
SetDelete(tf, p) == SelectSeq(tf, LAMBDA q : q # p)

\* isTempFile(p)
IsTempFile(p) == p \in Range(tempFiles)

\* getTempFiles()
GetTempFiles == tempFiles

(***************************************************************************)
(* The module's state as one value, and what a call returns                *)
(***************************************************************************)
St == [disk |-> disk, tempFiles |-> tempFiles,
       cleanupRegistered |-> cleanupRegistered, handlers |-> handlers,
       umask |-> DefaultUmask]

NoPath == <<>>

\* a call that returns value path
Returned(st, path) ==
    [ret |-> "ok", err |-> "none", path |-> path, st |-> st, ids |-> 1]

\* a call that raises Error(err), after ids calls of crypto.randomBytes
Thrown(st, err, ids) ==
    [ret |-> "throw", err |-> err, path |-> NoPath, st |-> st, ids |-> ids]

\* variant: crypto.randomBytes returns the bytes it returned before
RandomId_Repeats(n) == "r" \o ToString(1)

\* the n-th value of crypto.randomBytes(6).toString('hex')
RandomId(n) == "r" \o ToString(n)

\* Date.now().toString(36): the clock stands still between two calls
Timestamp == "t1"

(***************************************************************************)
(* registerCleanup                                                         *)
(***************************************************************************)
\* variant: only the 'exit' listener is installed
RegisterCleanup_ExitOnly(st) ==
    IF st.cleanupRegistered
    THEN st
    ELSE [st EXCEPT !.cleanupRegistered = TRUE,
                    !.handlers = [e \in Events |->
                                     IF e = "exit" THEN st.handlers[e] + 1
                                     ELSE st.handlers[e]]]

\* variant: the 'exit' listener is not installed, the other four are
RegisterCleanup_NoExit(st) ==
    IF st.cleanupRegistered
    THEN st
    ELSE [st EXCEPT !.cleanupRegistered = TRUE,
                    !.handlers = [e \in Events |->
                                     IF e = "exit" THEN st.handlers[e]
                                     ELSE st.handlers[e] + 1]]

\* variant: the listeners are installed on every call, the flag is not consulted
RegisterCleanup_NoGuard(st) ==
    [st EXCEPT !.cleanupRegistered = TRUE,
               !.handlers = [e \in Events |-> st.handlers[e] + 1]]

RegisterCleanup(st) ==
    IF st.cleanupRegistered
    THEN st
    ELSE [st EXCEPT !.cleanupRegistered = TRUE,
                    !.handlers = [e \in Events |-> st.handlers[e] + 1]]

(***************************************************************************)
(* The creation operations                                                 *)
(***************************************************************************)
DefaultPrefix == <<"temp-">>
DefaultDirPrefix == <<"temp-dir-">>

\* variant: the listeners are installed but the path is never added
Register_NoAdd(st, cleanup, path) ==
    IF cleanup THEN RegisterCleanup(st) ELSE st

\* variant: registerCleanup() runs whether or not cleanup is enabled
Register_AlwaysHooks(st, cleanup, path) ==
    LET reg == RegisterCleanup(st)
    IN IF cleanup
       THEN [reg EXCEPT !.tempFiles = SetAdd(reg.tempFiles, path)]
       ELSE reg

\* variant: the path is added without a call of registerCleanup()
Register_NoHooks(st, cleanup, path) ==
    IF cleanup
    THEN [st EXCEPT !.tempFiles = SetAdd(st.tempFiles, path)]
    ELSE st

\* the registration both writers and tempDirSync end with
Register(st, cleanup, path) ==
    IF cleanup
    THEN LET reg == RegisterCleanup(st)
         IN [reg EXCEPT !.tempFiles = SetAdd(reg.tempFiles, path)]
    ELSE st

\* an argument that is not a string (a number), and typeof x === 'string'
NotAString == <<"[number]">>
IsString(x) == x # NotAString

\* an option the caller left out
Undefined == -1
\* mode = 0o600
DefaultMode == 384

\* extension.startsWith('.')
StartsWithDot(extension) ==
    extension # <<>> /\ Head(extension) \in {".", ".."}

\* variant: the dot is added without looking at the extension's first character
NormalizeExtension_AlwaysDot(extension) ==
    IF extension # <<>> THEN <<".">> \o extension ELSE extension

\* if (extension && !extension.startsWith('.')) extension = '.' + extension
NormalizeExtension(extension) ==
    IF extension # <<>> /\ ~StartsWithDot(extension)
    THEN <<".">> \o extension
    ELSE extension

\* variant: the arguments are validated inside the try block, after the target
\* directory was made
TempWriteSync_ValidateLate(st, content, extension, options, rid, ts, fault) ==
    LET md == IF ~ExistsSync(st.disk, options.dir)
              THEN MkdirSync(st.disk, options.dir, st.umask, fault = "mkdir")
              ELSE [threw |-> FALSE, disk |-> st.disk]
        made == [st EXCEPT !.disk = md.disk]
    IN IF md.threw
       THEN Thrown(st, "Failed to write temporary file", 1)
       ELSE IF content = "null" \/ content = "undefined"
       THEN Thrown(made, "Content cannot be null or undefined", 1)
       ELSE IF ~IsString(extension)
       THEN Thrown(made, "Extension must be a string", 1)
       ELSE
       LET mode == IF options.mode = Undefined THEN DefaultMode ELSE options.mode
           filePath == Join(options.dir,
                            options.prefix \o <<ts, "-", rid>>
                                \o NormalizeExtension(extension))
           wr == WriteFileSync(md.disk, filePath, content, mode, st.umask, fault = "write")
       IN IF wr.threw
          THEN Thrown(made, "Failed to write temporary file", 1)
          ELSE Returned(Register([st EXCEPT !.disk = wr.disk], options.cleanup, filePath),
                        filePath)

\* variant: a target directory the call had to make is registered with the file
TempWriteSync_TracksDir(st, content, extension, options, rid, ts, fault) ==
    IF content = "null" \/ content = "undefined"
    THEN Thrown(st, "Content cannot be null or undefined", 0)
    ELSE IF ~IsString(extension)
    THEN Thrown(st, "Extension must be a string", 0)
    ELSE
    LET mode == IF options.mode = Undefined THEN DefaultMode ELSE options.mode
        filename == options.prefix \o <<ts, "-", rid>> \o NormalizeExtension(extension)
        filePath == Join(options.dir, filename)
        md == IF ~ExistsSync(st.disk, options.dir)
              THEN MkdirSync(st.disk, options.dir, st.umask, fault = "mkdir")
              ELSE [threw |-> FALSE, disk |-> st.disk]
        wr == WriteFileSync(md.disk, filePath, content, mode, st.umask, fault = "write")
        reg == Register([st EXCEPT !.disk = wr.disk], options.cleanup, filePath)
    IN IF md.threw
       THEN Thrown(st, "Failed to write temporary file", 1)
       ELSE IF wr.threw
       THEN Thrown([st EXCEPT !.disk = md.disk], "Failed to write temporary file", 1)
       ELSE Returned(IF ExistsSync(st.disk, options.dir) THEN reg
                     ELSE Register(reg, options.cleanup, options.dir),
                     filePath)

\* tempWriteSync(content, extension, options); fault is the step of the
\* try block whose primitive fails ("none", "mkdir", "write")
TempWriteSync(st, content, extension, options, rid, ts, fault) ==
    IF content = "null" \/ content = "undefined"
    THEN Thrown(st, "Content cannot be null or undefined", 0)
    ELSE IF ~IsString(extension)
    THEN Thrown(st, "Extension must be a string", 0)
    ELSE
    LET mode == IF options.mode = Undefined THEN DefaultMode ELSE options.mode
        filename == options.prefix \o <<ts, "-", rid>> \o NormalizeExtension(extension)
        filePath == Join(options.dir, filename)
        md == IF ~ExistsSync(st.disk, options.dir)
              THEN MkdirSync(st.disk, options.dir, st.umask, fault = "mkdir")
              ELSE [threw |-> FALSE, disk |-> st.disk]
        wr == WriteFileSync(md.disk, filePath, content, mode, st.umask, fault = "write")
    IN IF md.threw
       THEN Thrown(st, "Failed to write temporary file", 1)
       ELSE IF wr.threw
       THEN Thrown([st EXCEPT !.disk = md.disk], "Failed to write temporary file", 1)
       ELSE Returned(Register([st EXCEPT !.disk = wr.disk], options.cleanup, filePath),
                     filePath)

\* tempWriteJsonSync(obj, options)
TempWriteJsonSync(st, obj, options, rid, ts, fault) ==
    IF obj # "object"
    THEN Thrown(st, "Input must be a valid object", 0)
    ELSE TempWriteSync(st, "json text", <<".", "json">>, options, rid, ts, fault)

\* the data argument of tempWriteCsvSync: a value that is no array, or the
\* array of its rows, each an array of cells, a keyed object, a scalar or null
NotAnArray == <<"[string]">>
RowKinds == {"array", "object", "scalar", "null"}

\* tempWriteCsvSync(data, options).  Only data[0] decides the branch: in the
\* array branch row.map raises a TypeError for a row that is no array, in the
\* object branch Object.keys(null) and null[header] raise a TypeError and
\* row[header] of an array or a scalar is undefined, written as an empty cell
TempWriteCsvSync(st, data, options, rid, ts, fault) ==
    IF data = NotAnArray
    THEN Thrown(st, "CSV data must be an array", 0)
    ELSE IF data = <<>>
    THEN TempWriteSync(st, "", <<".", "csv">>, options, rid, ts, fault)
    ELSE IF data[1] = "array"
    THEN IF \E i \in 1..Len(data) : data[i] # "array"
         THEN Thrown(st, "TypeError", 0)
         ELSE TempWriteSync(st, "csv text", <<".", "csv">>, options, rid, ts, fault)
    ELSE IF data[1] \in {"object", "null"}
    THEN IF \E i \in 1..Len(data) : data[i] = "null"
         THEN Thrown(st, "TypeError", 0)
         ELSE TempWriteSync(st,
                  IF \A i \in 1..Len(data) : data[i] = "object"
                  THEN "csv text" ELSE "csv text with empty cells",
                  <<".", "csv">>, options, rid, ts, fault)
    ELSE Thrown(st, "Invalid CSV data format", 0)

\* variant: the path is registered before mkdirSync is attempted
TempDirSync_RegisterFirst(st, options, rid, ts, fault) ==
    LET dirName == options.prefix \o <<ts, "-", rid>>
        dirPath == Join(options.dir, dirName)
        reg == Register(st, options.cleanup, dirPath)
        md == MkdirSync(st.disk, dirPath, st.umask, fault = "mkdir")
    IN IF md.threw
       THEN Thrown(reg, "Failed to create temporary directory", 1)
       ELSE Returned([reg EXCEPT !.disk = md.disk], dirPath)

\* tempDirSync(options)
TempDirSync(st, options, rid, ts, fault) ==
    LET dirName == options.prefix \o <<ts, "-", rid>>
        dirPath == Join(options.dir, dirName)
        md == MkdirSync(st.disk, dirPath, st.umask, fault = "mkdir")
    IN IF md.threw
       THEN Thrown(st, "Failed to create temporary directory", 1)
       ELSE Returned(Register([st EXCEPT !.disk = md.disk], options.cleanup, dirPath),
                     dirPath)

\* variant: the extension argument is passed on as it is, the source's own
\* extension is not looked up
TempCopySync_NoExtName(st, sourcePath, extension, options, rid, ts, fault) ==
    IF ~ExistsSync(st.disk, sourcePath)
    THEN Thrown(st, "Source file does not exist", 0)
    ELSE IF IsDirectory(st.disk, sourcePath)
    THEN Thrown(st, "EISDIR", 0)
    ELSE TempWriteSync(st, st.disk[sourcePath].content, extension,
                       options, rid, ts, fault)

\* tempCopySync(sourcePath, extension, options); fs.readFileSync of a directory
\* raises EISDIR, outside any try block
TempCopySync(st, sourcePath, extension, options, rid, ts, fault) ==
    IF ~ExistsSync(st.disk, sourcePath)
    THEN Thrown(st, "Source file does not exist", 0)
    ELSE IF IsDirectory(st.disk, sourcePath)
    THEN Thrown(st, "EISDIR", 0)
    ELSE TempWriteSync(st, st.disk[sourcePath].content,
                       IF extension = <<>> THEN ExtName(sourcePath) ELSE extension,
                       options, rid, ts, fault)

\* String.prototype.replace(token, by): the first occurrence only
ReplaceFirst(str, token, by) ==
    LET hits == {i \in 1..Len(str) : str[i] = token}
    IN IF hits = {} THEN str
       ELSE LET i == CHOOSE j \in hits : \A k \in hits : j <= k
            IN SubSeq(str, 1, i - 1) \o <<by>> \o SubSeq(str, i + 1, Len(str))

\* tempWritePatternSync(content, pattern, options)
TempWritePatternSync(st, content, pattern, options, rid, ts, fault) ==
    LET filename == ReplaceFirst(ReplaceFirst(ReplaceFirst(pattern,
                        "{random}", rid), "{timestamp}", ts), "{time}", ts)
        filePath == Join(options.dir, filename)
        md == IF ~ExistsSync(st.disk, options.dir)
              THEN MkdirSync(st.disk, options.dir, st.umask, fault = "mkdir")
              ELSE [threw |-> FALSE, disk |-> st.disk]
        wr == WriteFileSync(md.disk, filePath, content, DefaultFileMode, st.umask,
                            fault = "write" \/ content = "null" \/ content = "undefined")
    IN IF md.threw
       THEN Thrown(st, "Failed to write temporary file", 1)
       ELSE IF wr.threw
       THEN Thrown([st EXCEPT !.disk = md.disk], "Failed to write temporary file", 1)
       ELSE Returned(Register([st EXCEPT !.disk = wr.disk], options.cleanup, filePath),
                     filePath)

(***************************************************************************)
(* cleanupSync, cleanupAllSync, excludeFromCleanup                         *)
(***************************************************************************)
\* variant: a directory is handed to unlinkSync like a file, which raises
CleanupSync_UnlinkOnly(st, lk, filePath) ==
    IF ~ExistsSync(st.disk, filePath)
    THEN {[ret |-> "true",
           st |-> [st EXCEPT !.tempFiles = SetDelete(st.tempFiles, filePath)]]}
    ELSE IF IsDirectory(st.disk, filePath) \/ filePath \in lk
    THEN {[ret |-> "false", st |-> st]}
    ELSE {[ret |-> "true",
           st |-> [st EXCEPT !.disk = RemoveAll(st.disk, {filePath}),
                             !.tempFiles = SetDelete(st.tempFiles, filePath)]]}

\* variant: statSync runs without the existsSync guard, so a missing path
\* raises inside the try block
CleanupSync_StatMissing(st, lk, filePath) ==
    IF ~ExistsSync(st.disk, filePath)
    THEN {[ret |-> "false", st |-> st]}
    ELSE {IF o.threw
          THEN [ret |-> "false", st |-> [st EXCEPT !.disk = o.disk]]
          ELSE [ret |-> "true",
                st |-> [st EXCEPT !.disk = o.disk,
                                  !.tempFiles = SetDelete(st.tempFiles, filePath)]]
          : o \in RmOutcomes(st.disk, lk, filePath)}

\* variant: the catch block raises again instead of returning false
CleanupSync_Rethrow(st, lk, filePath) ==
    IF ~ExistsSync(st.disk, filePath)
    THEN {[ret |-> "true",
           st |-> [st EXCEPT !.tempFiles = SetDelete(st.tempFiles, filePath)]]}
    ELSE {IF o.threw
          THEN [ret |-> "throw", st |-> [st EXCEPT !.disk = o.disk]]
          ELSE [ret |-> "true",
                st |-> [st EXCEPT !.disk = o.disk,
                                  !.tempFiles = SetDelete(st.tempFiles, filePath)]]
          : o \in RmOutcomes(st.disk, lk, filePath)}

\* variant: tempFiles.delete is left out
CleanupSync_KeepsTracked(st, lk, filePath) ==
    IF ~ExistsSync(st.disk, filePath)
    THEN {[ret |-> "true",
           st |-> [st EXCEPT !.tempFiles = SetDelete(st.tempFiles, filePath)]]}
    ELSE {IF o.threw
          THEN [ret |-> "false", st |-> [st EXCEPT !.disk = o.disk]]
          ELSE [ret |-> "true", st |-> [st EXCEPT !.disk = o.disk]]
          : o \in RmOutcomes(st.disk, lk, filePath)}

\* variant: removing a directory also unregisters the tracked paths under it
CleanupSync_UnregistersUnder(st, lk, filePath) ==
    IF ~ExistsSync(st.disk, filePath)
    THEN {[ret |-> "true",
           st |-> [st EXCEPT !.tempFiles = SetDelete(st.tempFiles, filePath)]]}
    ELSE {IF o.threw
          THEN [ret |-> "false", st |-> [st EXCEPT !.disk = o.disk]]
          ELSE [ret |-> "true",
                st |-> [st EXCEPT !.disk = o.disk,
                                  !.tempFiles =
                                      SelectSeq(st.tempFiles,
                                          LAMBDA q : q # filePath /\ ~IsUnder(q, filePath))]]
          : o \in RmOutcomes(st.disk, lk, filePath)}

\* variant: a path that is not tracked is reported cleaned and left alone
CleanupSync_TrackedOnly(st, lk, filePath) ==
    IF ~ExistsSync(st.disk, filePath) \/ filePath \notin Range(st.tempFiles)
    THEN {[ret |-> "true",
           st |-> [st EXCEPT !.tempFiles = SetDelete(st.tempFiles, filePath)]]}
    ELSE {IF o.threw
          THEN [ret |-> "false", st |-> [st EXCEPT !.disk = o.disk]]
          ELSE [ret |-> "true",
                st |-> [st EXCEPT !.disk = o.disk,
                                  !.tempFiles = SetDelete(st.tempFiles, filePath)]]
          : o \in RmOutcomes(st.disk, lk, filePath)}

\* cleanupSync(filePath): the outcomes [ret, st], ret one of "true", "false",
\* "throw".  Everything from existsSync to delete runs inside the try block.
CleanupSync(st, lk, filePath) ==
    IF ~ExistsSync(st.disk, filePath)
    THEN {[ret |-> "true",
           st |-> [st EXCEPT !.tempFiles = SetDelete(st.tempFiles, filePath)]]}
    ELSE {IF o.threw
          THEN [ret |-> "false", st |-> [st EXCEPT !.disk = o.disk]]
          ELSE [ret |-> "true",
                st |-> [st EXCEPT !.disk = o.disk,
                                  !.tempFiles = SetDelete(st.tempFiles, filePath)]]
          : o \in RmOutcomes(st.disk, lk, filePath)}

\* the for..of loop of cleanupAllSync over the live Set, then tempFiles.clear():
\* i is the iterator's position, attempts the calls of cleanupSync made so far
RECURSIVE CleanupLoop(_, _, _, _, _)

\* variant: the iterator steps on after a deletion too, skipping the entry that
\* moved into the deleted one's place
CleanupLoop_SkipAfterDelete(st, lk, i, cleanedCount, attempts) ==
    IF i > Len(st.tempFiles)
    THEN {[ret |-> "ok", count |-> cleanedCount, attempts |-> attempts,
           st |-> [st EXCEPT !.tempFiles = <<>>]]}
    ELSE LET filePath == st.tempFiles[i]
         IN UNION {
              CleanupLoop(o.st, lk, i + 1,
                          IF o.ret = "true" THEN cleanedCount + 1 ELSE cleanedCount,
                          Append(attempts, [path |-> filePath, ret |-> o.ret]))
              : o \in CleanupSync(st, lk, filePath)}

\* variant: cleanedCount counts the attempts, not the successes
CleanupLoop_CountAttempts(st, lk, i, cleanedCount, attempts) ==
    IF i > Len(st.tempFiles)
    THEN {[ret |-> "ok", count |-> cleanedCount, attempts |-> attempts,
           st |-> [st EXCEPT !.tempFiles = <<>>]]}
    ELSE LET filePath == st.tempFiles[i]
         IN UNION {
              CleanupLoop(o.st, lk,
                          IF Len(o.st.tempFiles) < Len(st.tempFiles) THEN i ELSE i + 1,
                          cleanedCount + 1,
                          Append(attempts, [path |-> filePath, ret |-> o.ret]))
              : o \in CleanupSync(st, lk, filePath)}

\* variant: tempFiles.clear() is missing, the paths whose cleanupSync returned
\* false stay tracked
CleanupLoop_NoClear(st, lk, i, cleanedCount, attempts) ==
    IF i > Len(st.tempFiles)
    THEN {[ret |-> "ok", count |-> cleanedCount, attempts |-> attempts, st |-> st]}
    ELSE LET filePath == st.tempFiles[i]
         IN UNION {
              CleanupLoop(o.st, lk,
                          IF Len(o.st.tempFiles) < Len(st.tempFiles) THEN i ELSE i + 1,
                          IF o.ret = "true" THEN cleanedCount + 1 ELSE cleanedCount,
                          Append(attempts, [path |-> filePath, ret |-> o.ret]))
              : o \in CleanupSync(st, lk, filePath)}

\* variant: the loop is left at the first cleanupSync that returns false
CleanupLoop_StopAtFailure(st, lk, i, cleanedCount, attempts) ==
    IF i > Len(st.tempFiles)
    THEN {[ret |-> "ok", count |-> cleanedCount, attempts |-> attempts,
           st |-> [st EXCEPT !.tempFiles = <<>>]]}
    ELSE LET filePath == st.tempFiles[i]
         IN UNION {
              IF o.ret = "true"
              THEN CleanupLoop(o.st, lk,
                          IF Len(o.st.tempFiles) < Len(st.tempFiles) THEN i ELSE i + 1,
                          cleanedCount + 1,
                          Append(attempts, [path |-> filePath, ret |-> o.ret]))
              ELSE {[ret |-> "ok", count |-> cleanedCount,
                     attempts |-> Append(attempts, [path |-> filePath, ret |-> o.ret]),
                     st |-> [o.st EXCEPT !.tempFiles = <<>>]]}
              : o \in CleanupSync(st, lk, filePath)}

CleanupLoop(st, lk, i, cleanedCount, attempts) ==
    IF i > Len(st.tempFiles)
    THEN {[ret |-> "ok", count |-> cleanedCount, attempts |-> attempts,
           st |-> [st EXCEPT !.tempFiles = <<>>]]}
    ELSE LET filePath == st.tempFiles[i]
         IN UNION {
              IF o.ret = "throw"
              THEN {[ret |-> "throw", count |-> cleanedCount,
                     attempts |-> Append(attempts, [path |-> filePath, ret |-> o.ret]),
                     st |-> o.st]}
              ELSE CleanupLoop(o.st, lk,
                               IF Len(o.st.tempFiles) < Len(st.tempFiles) THEN i ELSE i + 1,
                               IF o.ret = "true" THEN cleanedCount + 1 ELSE cleanedCount,
                               Append(attempts, [path |-> filePath, ret |-> o.ret]))
              : o \in CleanupSync(st, lk, filePath)}

\* cleanupAllSync(): the outcomes [ret, count, attempts, st]
CleanupAllSync(st, lk) == CleanupLoop(st, lk, 1, 0, <<>>)

\* variant: the excluded file is unlinked as well
ExcludeFromCleanup_Unlink(st, filePath) ==
    [st EXCEPT !.tempFiles = SetDelete(st.tempFiles, filePath),
               !.disk = RemoveAll(st.disk, {filePath})]

\* excludeFromCleanup(filePath)
ExcludeFromCleanup(st, filePath) ==
    [st EXCEPT !.tempFiles = SetDelete(st.tempFiles, filePath)]

(***************************************************************************)
(* Initial state                                                           *)
(***************************************************************************)
\* op, path: the call and its path argument or result; ret, err: what it
\* returned or raised; cleanup: the cleanup option; tracked, kind: whether the
\* path was in the registry, and what it was on disk, when the call began;
\* prev: what the call before returned, when it was the same cleanupSync;
\* count, attempts: cleanupAllSync's result and its calls of cleanupSync
\* args: the arguments and the environment of the calls, where a behaviour
\* fixes them
NoArgs == [content |-> "none", extension |-> <<>>, pattern |-> <<>>,
           source |-> NoPath, rows |-> <<>>,
           dir |-> NoPath, prefix |-> <<>>, cleanup |-> FALSE, mode |-> Undefined,
           umask |-> DefaultUmask, fault |-> "none"]

NoCall == [op |-> "none", path |-> NoPath, ret |-> "none", err |-> "none",
           cleanup |-> FALSE, tracked |-> FALSE, kind |-> "none", prev |-> "none",
           count |-> 0, attempts |-> <<>>, args |-> NoArgs]

\* the caller's own file holds the text the callers write
Init ==
    /\ disk = [q \in {TmpDir, UserFile} |->
                  IF q = TmpDir
                  THEN [kind |-> "dir", mode |-> DefaultDirMode]
                  ELSE [kind |-> "file", mode |-> Masked(DefaultFileMode, DefaultUmask, 0),
                        content |-> "text"]]
    /\ tempFiles = <<>>
    /\ cleanupRegistered = FALSE
    /\ handlers = [e \in Events |-> 0]
    /\ nextId = 0
    /\ phase = "running"
    /\ exitCode = -1
    /\ cause = "none"
    /\ trackedAtTerm = {}
    /\ failedAtTerm = {}
    /\ run = 0
    /\ last = NoCall

(***************************************************************************)
(* Calls of the public API while the process runs                          *)
(***************************************************************************)
\* the module's state after a call
Becomes(st) ==
    /\ disk' = st.disk
    /\ tempFiles' = st.tempFiles
    /\ cleanupRegistered' = st.cleanupRegistered
    /\ handlers' = st.handlers

\* the values of the dir option: the default, a directory still to be made, and
\* every directory there is (those tempDirSync returned among them)
TargetDirs == {TmpDir, OutDir} \cup {d \in DOMAIN disk : IsDirectory(disk, d)}

\* the options a caller passes to tempWriteSync: every target directory with
\* cleanup left on, and cleanup switched off in the default directory
WriteOptions ==
    {[dir |-> d, prefix |-> DefaultPrefix, cleanup |-> TRUE, mode |-> Undefined]
        : d \in TargetDirs}
    \cup {[dir |-> TmpDir, prefix |-> DefaultPrefix, cleanup |-> FALSE,
            mode |-> Undefined]}

Faults == {"none", "mkdir", "write"}

Patterns == {<<"fixed", ".", "txt">>, <<"data-", "{random}", ".", "txt">>}

\* the sets of paths whose stat/unlink/rm raises during one call (EACCES,
\* EPERM, EBUSY), among the paths the call of cleanupSync on paths can reach
FailingSets(paths) ==
    {F \in SUBSET {q \in DOMAIN disk : \E p \in paths : q = p \/ IsUnder(q, p)} :
        Cardinality(F) <= MaxFailing}

\* what a creation call leaves behind besides the module's state
Created(op, o, cleanup) ==
    /\ Becomes(o.st)
    /\ nextId' = nextId + o.ids
    /\ run' = IF o.ret = "ok" /\ cleanup /\ run >= 0 THEN run + 1 ELSE -1
    /\ last' = [NoCall EXCEPT !.op = op, !.path = o.path, !.ret = o.ret,
                              !.err = o.err, !.cleanup = cleanup]
    /\ UNCHANGED <<phase, exitCode, cause, trackedAtTerm, failedAtTerm>>

CanCreate == phase = "running" /\ nextId < MaxIds

\* tempWriteSync(content, '.txt', options)
Write(content, options, fault) ==
    /\ CanCreate
    /\ Created("write",
               TempWriteSync(St, content, <<".", "txt">>, options,
                   RandomId(nextId + 1), Timestamp, fault),
               options.cleanup)

\* tempWriteJsonSync(obj)
WriteJson(obj) ==
    /\ CanCreate
    /\ Created("writeJson",
               TempWriteJsonSync(St, obj,
                   [dir |-> TmpDir, prefix |-> DefaultPrefix, cleanup |-> TRUE,
                    mode |-> Undefined],
                   RandomId(nextId + 1), Timestamp, "none"),
               TRUE)

\* tempWriteCsvSync(data)
WriteCsv(data) ==
    /\ CanCreate
    /\ Created("writeCsv",
               TempWriteCsvSync(St, data,
                   [dir |-> TmpDir, prefix |-> DefaultPrefix, cleanup |-> TRUE,
                    mode |-> Undefined],
                   RandomId(nextId + 1), Timestamp, "none"),
               TRUE)

\* tempDirSync()
MkTempDir(fault) ==
    /\ CanCreate
    /\ Created("mkTempDir",
               TempDirSync(St,
                   [dir |-> TmpDir, prefix |-> DefaultDirPrefix, cleanup |-> TRUE],
                   RandomId(nextId + 1), Timestamp, fault),
               TRUE)

\* tempCopySync(sourcePath)
Copy(sourcePath, fault) ==
    /\ CanCreate
    /\ Created("copy",
               TempCopySync(St, sourcePath, <<>>,
                   [dir |-> TmpDir, prefix |-> DefaultPrefix, cleanup |-> TRUE,
                    mode |-> Undefined],
                   RandomId(nextId + 1), Timestamp, fault),
               TRUE)

\* tempWritePatternSync(content, pattern, {dir})
WritePattern(content, pattern, dir, fault) ==
    /\ CanCreate
    /\ Created("writeWithPattern",
               TempWritePatternSync(St, content, pattern,
                   [dir |-> dir, cleanup |-> TRUE],
                   RandomId(nextId + 1), Timestamp, fault),
               TRUE)

\* the paths a caller hands to cleanupSync and excludeFromCleanup: the paths
\* creation calls returned to it that are tracked or still are files on disk,
\* the path of the cleanupSync it has just made, and a path that does not exist
KnownPaths ==
    Range(tempFiles)
    \cup {q \in DOMAIN disk : ~IsDirectory(disk, q) /\ q # UserFile}
    \cup (IF last.op = "cleanupOne" THEN {last.path} ELSE {})
    \cup {MissingPath}

\* cleanupSync(filePath), with the removals of failing raising
CleanupOne(filePath, failing) ==
    /\ phase = "running"
    /\ \E o \in CleanupSync(St, failing, filePath) :
         /\ Becomes(o.st)
         /\ last' = [NoCall EXCEPT
                        !.op = "cleanupOne", !.path = filePath, !.ret = o.ret,
                        !.tracked = IsTempFile(filePath),
                        !.kind = IF ExistsSync(disk, filePath)
                                 THEN disk[filePath].kind ELSE "absent",
                        !.prev = IF last.op = "cleanupOne" /\ last.path = filePath
                                 THEN last.ret ELSE "none"]
    /\ run' = -1
    /\ UNCHANGED <<nextId, phase, exitCode, cause, trackedAtTerm, failedAtTerm>>

\* cleanupAllSync(), with the removals of failing raising
CleanupAll(failing) ==
    /\ phase = "running"
    /\ \E o \in CleanupAllSync(St, failing) :
         /\ Becomes(o.st)
         /\ last' = [NoCall EXCEPT !.op = "cleanupAll", !.ret = o.ret,
                                   !.count = o.count, !.attempts = o.attempts]
         /\ run' = IF o.ret = "ok" THEN 0 ELSE -1
    /\ UNCHANGED <<nextId, phase, exitCode, cause, trackedAtTerm, failedAtTerm>>

\* excludeFromCleanup(filePath)
Exclude(filePath) ==
    /\ phase = "running"
    /\ Becomes(ExcludeFromCleanup(St, filePath))
    /\ last' = [NoCall EXCEPT !.op = "exclude", !.path = filePath, !.ret = "ok",
                              !.tracked = IsTempFile(filePath),
                              !.kind = IF ExistsSync(disk, filePath)
                                       THEN disk[filePath].kind ELSE "absent"]
    /\ run' = -1
    /\ UNCHANGED <<nextId, phase, exitCode, cause, trackedAtTerm, failedAtTerm>>

(***************************************************************************)
(* Process termination: the listeners registerCleanup installs             *)
(***************************************************************************)
Signals == {"SIGINT", "SIGTERM"}
FaultEvents == {"uncaughtException", "unhandledRejection"}

\* the status a listener hands to process.exit
HandlerStatus(e) == IF e \in Signals THEN 0 ELSE 1

\* the status of a process no listener of this module handles the event for
DefaultStatus(e) ==
    IF e = "SIGINT" THEN 130 ELSE IF e = "SIGTERM" THEN 143 ELSE 1

\* a listener's body up to process.exit: cleanupAllSync()
RunListener(e, o) ==
    /\ Becomes(o.st)
    /\ failedAtTerm' = failedAtTerm \cup
           {o.attempts[i].path : i \in {j \in 1..Len(o.attempts) :
                                           o.attempts[j].ret # "true"}}
    /\ last' = [NoCall EXCEPT !.op = e, !.ret = o.ret, !.count = o.count,
                              !.attempts = o.attempts]

\* the process runs out of work, or the application calls process.exit(0)
NormalExit ==
    /\ phase = "running"
    /\ phase' = "exiting"
    /\ exitCode' = 0
    /\ cause' = "exit"
    /\ trackedAtTerm' = Range(tempFiles)
    /\ run' = -1
    /\ last' = NoCall
    /\ UNCHANGED <<disk, tempFiles, cleanupRegistered, handlers, nextId,
                   failedAtTerm>>

\* variant: the listener calls process.exit(status) before cleanupAllSync()
Handled_ExitFirst(e, failing) ==
    /\ phase = "running"
    /\ handlers[e] > 0
    /\ phase' = "exiting"
    /\ exitCode' = HandlerStatus(e)
    /\ cause' = e
    /\ trackedAtTerm' = Range(tempFiles)
    /\ run' = -1
    /\ last' = [NoCall EXCEPT !.op = e, !.ret = "ok"]
    /\ UNCHANGED <<disk, tempFiles, cleanupRegistered, handlers, nextId,
                   failedAtTerm>>

\* SIGINT, SIGTERM, an uncaught exception or an unhandled rejection arrives
\* and this module's listener for it runs: cleanupAllSync(), process.exit(status)
Handled(e, failing) ==
    /\ phase = "running"
    /\ handlers[e] > 0
    /\ \E o \in CleanupAllSync(St, failing) :
         /\ RunListener(e, o)
         /\ exitCode' = IF o.ret = "throw" THEN 7 ELSE HandlerStatus(e)
    /\ phase' = "exiting"
    /\ cause' = e
    /\ trackedAtTerm' = Range(tempFiles)
    /\ run' = -1
    /\ UNCHANGED nextId

\* the same events in a process where registerCleanup never ran: a signal ends
\* the process at once, a fault ends it with status 1 after the 'exit' event
Unhandled(e) ==
    /\ phase = "running"
    /\ handlers[e] = 0
    /\ phase' = IF e \in Signals THEN "ended" ELSE "exiting"
    /\ exitCode' = DefaultStatus(e)
    /\ cause' = e
    /\ trackedAtTerm' = Range(tempFiles)
    /\ run' = -1
    /\ last' = NoCall
    /\ UNCHANGED <<disk, tempFiles, cleanupRegistered, handlers, nextId,
                   failedAtTerm>>

\* SIGKILL: no listener can run
Kill ==
    /\ phase = "running"
    /\ phase' = "ended"
    /\ exitCode' = 137
    /\ cause' = "SIGKILL"
    /\ trackedAtTerm' = Range(tempFiles)
    /\ run' = -1
    /\ last' = NoCall
    /\ UNCHANGED <<disk, tempFiles, cleanupRegistered, handlers, nextId,
                   failedAtTerm>>

\* the 'exit' event with this module's listener installed: cleanupAllSync()
ExitListener(failing) ==
    /\ phase = "exiting"
    /\ handlers["exit"] > 0
    /\ \E o \in CleanupAllSync(St, failing) : RunListener("exit", o)
    /\ phase' = "ended"
    /\ UNCHANGED <<nextId, exitCode, cause, trackedAtTerm, run>>

\* the 'exit' event without it
ExitPlain ==
    /\ phase = "exiting"
    /\ handlers["exit"] = 0
    /\ phase' = "ended"
    /\ UNCHANGED <<disk, tempFiles, cleanupRegistered, handlers, nextId,
                   exitCode, cause, trackedAtTerm, failedAtTerm, run, last>>

(***************************************************************************)
(* Specification                                                           *)
(***************************************************************************)
Next ==
    \/ \E content \in {"null", "text"}, options \in WriteOptions, fault \in Faults :
          /\ fault = "mkdir" => ~ExistsSync(disk, options.dir)
          /\ Write(content, options, fault)
    \/ \E obj \in {"null", "string", "object"} : WriteJson(obj)
    \/ \E data \in {NotAnArray, <<"scalar">>, <<"array", "array">>} : WriteCsv(data)
    \/ \E fault \in {"none", "mkdir"} : MkTempDir(fault)
    \/ \E sourcePath \in {UserFile, MissingPath}, fault \in {"none", "write"} :
          Copy(sourcePath, fault)
    \/ \E content \in {"null", "text"}, pattern \in Patterns, dir \in {TmpDir, OutDir},
          fault \in Faults :
          /\ fault = "mkdir" => ~ExistsSync(disk, dir)
          /\ WritePattern(content, pattern, dir, fault)
    \/ \E p \in KnownPaths : \E failing \in FailingSets({p}) : CleanupOne(p, failing)
    \/ \E failing \in FailingSets(Range(tempFiles)) : CleanupAll(failing)
    \/ \E p \in KnownPaths : Exclude(p)
    \/ NormalExit
    \/ \E e \in Signals \cup FaultEvents, failing \in FailingSets(Range(tempFiles)) :
          Handled(e, failing)
    \/ \E e \in Signals \cup FaultEvents : Unhandled(e)
    \/ Kill
    \/ \E failing \in FailingSets(Range(tempFiles)) : ExitListener(failing)
    \/ ExitPlain

Spec == Init /\ [][Next]_vars

(***************************************************************************)
(* Properties                                                              *)
(***************************************************************************)
CreationOps ==
    {"write", "writeJson", "writeCsv", "copy", "writeWithPattern", "mkTempDir"}

ListenerOps == Events

\* number of attempts of a cleanupAllSync that returned ret
CountRet(attempts, ret) ==
    Cardinality({i \in 1..Len(attempts) : attempts[i].ret = ret})

\* C1: after a creation operation returned path p with cleanup on, isTempFile(p)
\* holds and p is in getTempFiles(); after tempWriteSync returned p with
\* cleanup off, neither holds.
C1_TrackedIffCleanup ==
    (last.op \in CreationOps /\ last.ret = "ok") =>
        IF last.cleanup
        THEN /\ IsTempFile(last.path)
             /\ \E i \in 1..Len(GetTempFiles) : GetTempFiles[i] = last.path
        ELSE last.op = "write" =>
                /\ ~IsTempFile(last.path)
                /\ \A i \in 1..Len(GetTempFiles) : GetTempFiles[i] # last.path

C1_Witness ==
    /\ last.op = "write" /\ last.ret = "ok" /\ ~last.cleanup
    /\ ExistsSync(disk, last.path)
    /\ tempFiles # <<>>

C3_CleanupBeforeEnd ==
    (phase = "ended" /\ cause \in Events /\ cleanupRegistered) =>
        /\ tempFiles = <<>>
        /\ \A p \in trackedAtTerm \ failedAtTerm : ~ExistsSync(disk, p)

C3_Witness ==
    /\ phase = "ended" /\ cause = "SIGTERM"
    /\ Cardinality(trackedAtTerm) >= 2
    /\ failedAtTerm # {} /\ failedAtTerm # trackedAtTerm
    /\ \A p \in trackedAtTerm \ failedAtTerm : ~ExistsSync(disk, p)

\* whether a cleanupAllSync() reaches p: p is tracked or lies in a tracked path
Reached(p) == \E d \in Range(tempFiles) : p = d \/ IsUnder(p, d)

C5_CleanupOneRemoves ==
    [][last'.op = "cleanupOne" =>
        \A p \in {last'.path} \cap KnownPaths : \A F \in FailingSets({p}) :
          (/\ IsTempFile(p) /\ ExistsSync(disk, p)
           /\ ~RemovalFails(disk, F, p)
           /\ CleanupOne(p, F)) =>
             /\ last'.ret = "true"
             /\ ~ExistsSync(disk', p)
             /\ Descendants(disk', p) = {}
             /\ p \notin Range(tempFiles')]_vars

C5_Witness ==
    /\ last.op = "cleanupOne" /\ last.tracked /\ last.kind = "dir"
    /\ last.ret = "true"
    /\ ~ExistsSync(disk, last.path)
    /\ \E q \in Range(tempFiles) : IsUnder(q, last.path)

\* C6: cleanupSync(p) on a path that does not exist returns true, tracked or
\* not, and p is not tracked afterwards.
C6_MissingIsSuccess ==
    (last.op = "cleanupOne" /\ last.kind = "absent") =>
        (last.ret = "true" /\ ~IsTempFile(last.path))

C6_Witness ==
    /\ last.op = "cleanupOne" /\ last.kind = "absent" /\ last.tracked
    /\ last.ret = "true"

\* C7 as stated: after cleanupSync(p) returned, true or false, p is not in the
\* registry.
C7_Original ==
    last.op = "cleanupOne" => ~IsTempFile(last.path)

\* C8: cleanupSync(p) on an existing p whose stat or removal fails returns false;
\* cleanupSync, cleanupAllSync and the listeners never raise.
C8_FailureIsFalse ==
    [][/\ last'.op = "cleanupOne" =>
            \A p \in {last'.path} \cap KnownPaths : \A F \in FailingSets({p}) :
              (/\ ExistsSync(disk, p) /\ RemovalFails(disk, F, p)
               /\ CleanupOne(p, F)) =>
                  last'.ret = "false"
       /\ last'.op = "cleanupOne" => last'.ret \in {"true", "false"}
       /\ last'.op \in {"cleanupAll"} \cup ListenerOps =>
            /\ last'.ret = "ok"
            /\ \A i \in 1..Len(last'.attempts) :
                  last'.attempts[i].ret \in {"true", "false"}]_vars

C8_Witness ==
    /\ last.op \in ListenerOps /\ last.ret = "ok"
    /\ CountRet(last.attempts, "false") >= 1
    /\ phase = "exiting"

\* C9: cleanupAllSync() calls cleanupSync once on every path of the registry, in
\* order, past the failures, and returns the number of calls that returned
\* true: N - k when k of the N removals fail.
C9_CountsSuccesses ==
    [][last'.op = "cleanupAll" =>
        \A F \in FailingSets(Range(tempFiles)) :
          CleanupAll(F) =>
             /\ Len(last'.attempts) = Len(tempFiles)
             /\ \A i \in 1..Len(tempFiles) : last'.attempts[i].path = tempFiles[i]
             /\ last'.count = CountRet(last'.attempts, "true")
             /\ last'.count = Len(tempFiles) - CountRet(last'.attempts, "false")
             /\ \A i \in 1..Len(tempFiles) :
                   last'.attempts[i].ret = "false" => RemovalFails(disk, F, tempFiles[i])
             /\ F = {} => last'.count = Len(tempFiles)]_vars

C9_Witness ==
    /\ last.op = "cleanupAll"
    /\ Len(last.attempts) = 2
    /\ last.attempts[1].ret = "false" /\ last.attempts[2].ret = "true"
    /\ last.count = 1

\* C10 as stated: whatever the first cleanupSync(p) returned, a second one right
\* after it returns true and changes neither the disk nor the registry.
C10_Original ==
    [][(last.op = "cleanupOne" /\ last'.op = "cleanupOne" /\ last'.path = last.path) =>
        \A p \in {last.path} \cap KnownPaths : \A F \in FailingSets({p}) :
          CleanupOne(p, F) =>
             (last'.ret = "true" /\ disk' = disk /\ tempFiles' = tempFiles)]_vars

\* C10 amended: the same when the first cleanupSync(p) returned true.
C10_SecondCleanupNoOp ==
    [][(/\ last.op = "cleanupOne" /\ last.ret = "true"
        /\ last'.op = "cleanupOne" /\ last'.path = last.path) =>
        \A p \in {last.path} \cap KnownPaths : \A F \in FailingSets({p}) :
          CleanupOne(p, F) =>
             (last'.ret = "true" /\ disk' = disk /\ tempFiles' = tempFiles)]_vars

C10_Witness ==
    /\ last.op = "cleanupOne" /\ last.prev = "true" /\ last.ret = "true"
    /\ last.kind = "absent"
    /\ last.path # MissingPath

\* the messages of the errors the catch blocks of the creation operations raise
WriteFailureErrors ==
    {"Failed to write temporary file", "Failed to create temporary directory"}

\* whether the name of path p carries the random fragment rid
CarriesId(p, rid) == \E i \in 1..Len(p) : rid \in Range(p[i])

C12_ListenersInstalledOnce ==
    [][/\ \A e \in Events : handlers'[e] <= 1 /\ handlers'[e] >= handlers[e]
       /\ cleanupRegistered => (cleanupRegistered' /\ handlers' = handlers)
       /\ (~cleanupRegistered /\ cleanupRegistered') =>
              \A e \in Events : handlers[e] = 0 /\ handlers'[e] = 1]_vars

C12_Witness ==
    /\ cleanupRegistered
    /\ Len(tempFiles) >= 2
    /\ last.op \in CreationOps /\ last.ret = "ok" /\ last.cleanup
    /\ \A e \in Events : handlers[e] = 1

\* C13: the flag and the listeners change only in a creation call that returns
\* a path with cleanup enabled; creation calls with cleanup off, failed creation
\* calls, cleanupSync, cleanupAllSync and excludeFromCleanup install nothing.
C13_HooksOnlyByTrackedCreation ==
    [][(handlers' # handlers \/ cleanupRegistered' # cleanupRegistered) =>
          (last'.op \in CreationOps /\ last'.ret = "ok" /\ last'.cleanup
             /\ last'.path \in Range(tempFiles'))]_vars

C13_Witness ==
    /\ ~cleanupRegistered
    /\ \A e \in Events : handlers[e] = 0
    /\ nextId = MaxIds
    /\ \E p \in DOMAIN disk : CarriesId(p, RandomId(1))
    /\ last.op \in {"cleanupOne", "cleanupAll", "exclude"}

\* C14: once a SIGINT, SIGTERM, uncaughtException or unhandledRejection
\* listener of this module has called process.exit, cleanupAllSync() has run to
\* its end on the registry as it was (it is empty now), and the status is 0 for
\* the two signals and not 0 for the two faults.
C14_CleanupThenExit ==
    (phase # "running" /\ cause \in Signals \cup FaultEvents /\ handlers[cause] > 0) =>
        /\ tempFiles = <<>>
        /\ cause \in Signals => exitCode = 0
        /\ cause \in FaultEvents => exitCode # 0
        /\ phase = "exiting" =>
              /\ last.op = cause /\ last.ret = "ok"
              /\ {last.attempts[i].path : i \in 1..Len(last.attempts)} = trackedAtTerm

C14_Witness ==
    /\ phase = "exiting" /\ cause = "uncaughtException" /\ exitCode = 1
    /\ last.op = "uncaughtException"
    /\ Len(last.attempts) >= 2
    /\ \A i \in 1..Len(last.attempts) : ~ExistsSync(disk, last.attempts[i].path)

\* C15: calls run to completion one after the other (a listener too runs
\* between two calls, never inside one), and in every order of creation calls
\* and cleanupAllSync() a path leaves the registry only in a cleanupSync or
\* excludeFromCleanup on that path, or in a cleanupAllSync() (called or run by a
\* listener) that attempted cleanupSync on it.
C15_NoRegistrationDropped ==
    [][\A p \in Range(tempFiles) \ Range(tempFiles') :
          \/ last'.op \in {"cleanupOne", "exclude"} /\ last'.path = p
          \/ /\ last'.op \in {"cleanupAll"} \cup ListenerOps
             /\ \E i \in 1..Len(last'.attempts) : last'.attempts[i].path = p]_vars

C15_Witness ==
    /\ last.op = "cleanupAll" /\ tempFiles = <<>>
    /\ Len(last.attempts) = 2
    /\ last.attempts[1].ret = "false" /\ ExistsSync(disk, last.attempts[1].path)
    /\ last.attempts[2].ret = "false" /\ ExistsSync(disk, last.attempts[2].path)
    /\ last.count = 0

(***************************************************************************)
(* Creation calls with arguments of the caller's choosing: a behaviour      *)
(* fixes the arguments and the environment, then makes creation calls       *)
(***************************************************************************)
\* the arguments of the documentation's examples
UsualArgs ==
    [content |-> "text", extension |-> <<".", "txt">>,
     pattern |-> <<"data-", "{random}", ".", "txt">>,
     source |-> UserFile, rows |-> <<"array", "array">>,
     dir |-> TmpDir, prefix |-> DefaultPrefix, cleanup |-> TRUE, mode |-> Undefined,
     umask |-> DefaultUmask, fault |-> "none"]

\* a prefix and a pattern that name the parent directory
UpPrefix == <<"..", "/", "up-">>
UpPattern == <<"..", "/", "up-", "{random}", ".", "txt">>

\* the longest data argument of tempWriteCsvSync
MaxRows == 2

CsvData == {NotAnArray} \cup UNION {[1..n -> RowKinds] : n \in 0..MaxRows}

ArgValues ==
    [content : {"text", "null", "undefined"},
     extension : {<<>>, <<"txt">>, <<".", "txt">>, <<"tar", ".", "gz">>, NotAString},
     pattern : {<<"data-", "{random}", ".", "txt">>, <<"fixed", ".", "txt">>, UpPattern,
                <<"{random}", "-", "{random}", ".", "txt">>,
                <<"{timestamp}", "-", "{time}", "-", "{date}", ".", "log">>},
     source : {UserFile, MissingPath, TmpDir},
     rows : CsvData,
     dir : {TmpDir, OutDir},
     prefix : {DefaultPrefix, UpPrefix},
     cleanup : {TRUE, FALSE},
     mode : {Undefined, 420},
     umask : {DefaultUmask, 63},
     fault : {"none", "mkdir", "write"}]

\* at most this many arguments differ from the usual ones in one behaviour
MaxUnusual == 2

Unusual(a) == {f \in DOMAIN UsualArgs : a[f] # UsualArgs[f]}

\* the data argument matters to tempWriteCsvSync alone: its values are combined
\* with the target directories and the failing primitives only
ArgSets ==
    {a \in ArgValues :
        /\ Cardinality(Unusual(a)) <= MaxUnusual
        /\ a.rows # UsualArgs.rows => Unusual(a) \subseteq {"rows", "dir", "fault"}}

OptionsOf(a) ==
    [dir |-> a.dir, prefix |-> a.prefix, cleanup |-> a.cleanup, mode |-> a.mode]

\* the module's state in the environment of a
StIn(a) == [St EXCEPT !.umask = a.umask]

CallInit ==
    /\ Init!1 /\ Init!2 /\ Init!3 /\ Init!4 /\ Init!5 /\ Init!6
    /\ Init!7 /\ Init!8 /\ Init!9 /\ Init!10 /\ Init!11
    /\ \E a \in ArgSets : last = [NoCall EXCEPT !.args = a]

\* what a creation call with the behaviour's arguments leaves behind
CreatedWith(op, o) ==
    /\ Becomes(o.st)
    /\ nextId' = nextId + o.ids
    /\ run' = -1
    /\ last' = [NoCall EXCEPT !.op = op, !.path = o.path, !.ret = o.ret,
                              !.err = o.err, !.cleanup = last.args.cleanup,
                              !.args = last.args]
    /\ UNCHANGED <<phase, exitCode, cause, trackedAtTerm, failedAtTerm>>

\* tempWriteSync(content, extension, {dir, prefix, cleanup, mode})
CallWrite ==
    /\ CanCreate
    /\ CreatedWith("write",
           TempWriteSync(StIn(last.args), last.args.content, last.args.extension,
               OptionsOf(last.args), RandomId(nextId + 1), Timestamp, last.args.fault))

\* tempWritePatternSync(content, pattern, {dir, cleanup, mode})
CallPattern ==
    /\ CanCreate
    /\ CreatedWith("writeWithPattern",
           TempWritePatternSync(StIn(last.args), last.args.content, last.args.pattern,
               OptionsOf(last.args), RandomId(nextId + 1), Timestamp, last.args.fault))

\* tempDirSync({dir, prefix, cleanup})
CallDir ==
    /\ CanCreate
    /\ CreatedWith("mkTempDir",
           TempDirSync(StIn(last.args), OptionsOf(last.args),
               RandomId(nextId + 1), Timestamp, last.args.fault))

\* tempCopySync(source, extension, {dir, prefix, cleanup, mode})
CallCopy ==
    /\ CanCreate
    /\ CreatedWith("copy",
           TempCopySync(StIn(last.args), last.args.source, last.args.extension,
               OptionsOf(last.args), RandomId(nextId + 1), Timestamp, last.args.fault))

\* tempWriteJsonSync({...}, {dir, prefix, cleanup, mode})
CallJson ==
    /\ CanCreate
    /\ CreatedWith("writeJson",
           TempWriteJsonSync(StIn(last.args), "object", OptionsOf(last.args),
               RandomId(nextId + 1), Timestamp, last.args.fault))

\* tempWriteCsvSync(rows, {dir, prefix, cleanup, mode})
CallCsv ==
    /\ CanCreate
    /\ CreatedWith("writeCsv",
           TempWriteCsvSync(StIn(last.args), last.args.rows, OptionsOf(last.args),
               RandomId(nextId + 1), Timestamp, last.args.fault))

CallNext == CallWrite \/ CallJson \/ CallCsv \/ CallPattern \/ CallDir \/ CallCopy

CallSpec == CallInit /\ [][CallNext]_vars

(***************************************************************************)
(* Properties of a creation call's arguments                               *)
(***************************************************************************)
\* the messages of the errors tempWriteSync raises for its arguments
InvalidArgumentErrors ==
    {"Content cannot be null or undefined", "Extension must be a string"}

\* C16: tempWriteSync with null or undefined content, or with an extension that
\* is not a string, raises the argument's error and has done nothing: the file
\* system (the missing target directory too), the registry, the flag and the
\* listeners are as before, and crypto.randomBytes was not called.
C16_ValidationBeforeIO ==
    [][(/\ last'.op = "write"
        /\ \/ last'.args.content \in {"null", "undefined"}
           \/ ~IsString(last'.args.extension)) =>
          /\ last'.ret = "throw"
          /\ last'.err = IF last'.args.content \in {"null", "undefined"}
                         THEN "Content cannot be null or undefined"
                         ELSE "Extension must be a string"
          /\ last'.path = NoPath
          /\ disk' = disk
          /\ tempFiles' = tempFiles
          /\ cleanupRegistered' = cleanupRegistered
          /\ handlers' = handlers
          /\ nextId' = nextId]_vars

C16_Witness ==
    /\ last.op = "write" /\ last.ret = "throw"
    /\ last.err = "Extension must be a string"
    /\ last.args.dir = OutDir /\ ~ExistsSync(disk, OutDir)
    /\ nextId = 0 /\ ~cleanupRegistered

\* the paths earlier creation calls of the behaviour produced: nothing is
\* removed between them, so these are the entries of the file system besides
\* the ones it started with and the target directory
EarlierPaths == DOMAIN disk \ {TmpDir, OutDir, UserFile}

\* whether the name of call l has a fragment of crypto.randomBytes in it
UsesRandom(l) ==
    l.op # "writeWithPattern" \/ "{random}" \in Range(l.args.pattern)

WriterOps == {"write", "writeJson", "writeCsv", "copy", "writeWithPattern"}

\* the mode option of call l, with tempWriteSync's default when it is omitted
RequestedMode(l) == IF l.args.mode = Undefined THEN DefaultMode ELSE l.args.mode

\* C18 as stated: the file a successful writer call returns has the permission
\* bits of the mode option, 0o600 when the option is omitted, as open(2) applies
\* them under the process's umask.
C18_Original ==
    (last.op \in WriterOps /\ last.ret = "ok") =>
        disk[last.path].mode = Masked(RequestedMode(last), last.args.umask, 0)

\* path.dirname(p)
DirName(p) == SubSeq(p, 1, Len(p) - 1)

\* C19 as stated: whatever prefix, extension and pattern the caller passes,
\* the path a successful creation call returns is an entry of the target
\* directory itself, not of a parent or a sibling of it.
C19_Original ==
    (last.op \in CreationOps /\ last.ret = "ok") =>
        /\ last.path # NoPath
        /\ DirName(last.path) = last.args.dir

\* what follows the random fragment rid in the last name of path p
SuffixAfter(p, rid) ==
    LET name == p[Len(p)]
        i == CHOOSE j \in 1..Len(name) : name[j] = rid
    IN SubSeq(name, i + 1, Len(name))

\* C20: the name a successful tempWriteSync(x, e) returns ends, after its random
\* fragment, with '.' + e when the extension e is not empty and does not start
\* with a dot (the suffix tempWriteSync(x, '.' + e) gets), with e itself when e
\* starts with a dot, and with nothing when e is empty; normalising the
\* normalised extension changes nothing.
C20_ExtensionNormalized ==
    [][(last'.op = "write" /\ last'.ret = "ok") =>
          LET e == last'.args.extension
              suffix == SuffixAfter(last'.path, RandomId(nextId'))
          IN /\ CarriesId(last'.path, RandomId(nextId'))
             /\ (e # <<>> /\ ~StartsWithDot(e)) => suffix = <<".">> \o e
             /\ StartsWithDot(e) => suffix = e
             /\ e = <<>> => suffix = <<>>
             /\ NormalizeExtension(suffix) = suffix]_vars

C20_Witness ==
    /\ last.op = "write" /\ last.ret = "ok"
    /\ last.args.extension = <<"tar", ".", "gz">>
    /\ SuffixAfter(last.path, RandomId(nextId)) = <<".", "tar", ".", "gz">>

(***************************************************************************)
(* Properties of tempCopySync, tempWriteCsvSync and tempWritePatternSync    *)
(***************************************************************************)
\* C21: tempCopySync of a source path that does not exist raises "Source file
\* does not exist" and leaves the file system, the registry, the flag and the
\* listeners as they were; a tempCopySync that returns has made a new file, at a
\* path other than the source's, with the content the source has, has left the
\* source as it was, and when the extension argument is empty the new name has
\* the source's extension; with an existing file as source, a string as
\* extension and no failing primitive it does return.
C21_CopyOrNotFound ==
    [][last'.op = "copy" =>
          LET src == last'.args.source
          IN /\ ~ExistsSync(disk, src) =>
                   /\ last'.ret = "throw"
                   /\ last'.err = "Source file does not exist"
                   /\ disk' = disk
                   /\ tempFiles' = tempFiles
                   /\ cleanupRegistered' = cleanupRegistered
                   /\ handlers' = handlers
             /\ last'.ret = "ok" =>
                   /\ ExistsSync(disk, src)
                   /\ last'.path # src
                   /\ ~ExistsSync(disk, last'.path)
                   /\ disk'[last'.path].kind = "file"
                   /\ disk'[last'.path].content = disk[src].content
                   /\ disk'[src] = disk[src]
                   /\ last'.args.extension = <<>> =>
                          ExtName(last'.path) = ExtName(src)
             /\ (/\ ExistsSync(disk, src) /\ ~IsDirectory(disk, src)
                 /\ IsString(last'.args.extension)
                 /\ last'.args.fault = "none"
                 /\ last'.args.prefix = DefaultPrefix) => last'.ret = "ok"]_vars

C21_Witness ==
    /\ last.op = "copy" /\ last.ret = "ok"
    /\ last.args.extension = <<>>
    /\ ExtName(last.path) = <<".", "txt">>
    /\ last.path # last.args.source
    /\ disk[last.path].content = disk[last.args.source].content

\* whether every row of data has the shape kind
AllRows(data, kind) == \A i \in 1..Len(data) : data[i] = kind

\* C22 as stated: tempWriteCsvSync raises "CSV data must be an array" for data
\* that is no array, and raises "Invalid CSV data format" for every array whose
\* rows are neither all arrays nor all keyed objects, wherever the odd row is;
\* either way no file is made and the registry is as before.
C22_Original ==
    [][last'.op = "writeCsv" =>
          LET data == last'.args.rows
          IN /\ data = NotAnArray =>
                   /\ last'.ret = "throw"
                   /\ last'.err = "CSV data must be an array"
                   /\ disk' = disk /\ tempFiles' = tempFiles
             /\ (/\ data # NotAnArray
                 /\ ~AllRows(data, "array")
                 /\ ~AllRows(data, "object")) =>
                   /\ last'.ret = "throw"
                   /\ last'.err = "Invalid CSV data format"
                   /\ disk' = disk /\ tempFiles' = tempFiles]_vars

\* pattern with every {random} replaced by rid and every {timestamp} and {time}
\* by ts
SubstituteAll(pattern, rid, ts) ==
    [i \in 1..Len(pattern) |->
        IF pattern[i] = "{random}" THEN rid
        ELSE IF pattern[i] \in {"{timestamp}", "{time}"} THEN ts
        ELSE pattern[i]]

\* C23 as stated: the name of the file a successful tempWritePatternSync
\* returns is the pattern with each occurrence of {random} replaced by the
\* random fragment and each occurrence of {timestamp} and {time} by the
\* timestamp fragment, everything else verbatim, so no recognized placeholder is
\* left in it.
C23_Original ==
    (last.op = "writeWithPattern" /\ last.ret = "ok") =>
        /\ last.path = Join(last.args.dir,
                            SubstituteAll(last.args.pattern, RandomId(nextId), Timestamp))
        /\ \A n \in Range(last.path) :
               Range(n) \cap {"{random}", "{timestamp}", "{time}"} = {}

\* C24 as stated: tempWritePatternSync with null or undefined content raises
\* the argument's error and has done nothing: the file system (the missing
\* target directory too), the registry, the flag and the listeners are as
\* before.
C24_Original ==
    [][(/\ last'.op = "writeWithPattern"
        /\ last'.args.content \in {"null", "undefined"}) =>
          /\ last'.ret = "throw"
          /\ last'.err \in InvalidArgumentErrors
          /\ disk' = disk
          /\ tempFiles' = tempFiles
          /\ cleanupRegistered' = cleanupRegistered
          /\ handlers' = handlers]_vars

(***************************************************************************)
(* Properties of the registry, the listeners and the file system together   *)
(***************************************************************************)
\* C25: whenever a path is tracked, the flag is set and each of the five
\* events has its listener: registerCleanup() runs before the first
\* tempFiles.add, and nothing removes a listener.
C25_TrackedImpliesHooks ==
    tempFiles # <<>> =>
        /\ cleanupRegistered
        /\ \A e \in Events : handlers[e] = 1

C25_Witness ==
    /\ Len(tempFiles) = 2
    /\ cleanupRegistered
    /\ phase = "running"

\* C26: a cleanupAllSync, called directly or by a listener, leaves the registry
\* empty also when removals failed: every path whose cleanupSync returned false
\* is still on disk and no longer tracked.  A cleanupAllSync attempts the paths
\* tracked when it starts and no others, so a later call or listener does not
\* attempt such a path again (unless a creation call has registered it anew).
C26_FailedPathsAreDropped ==
    [][(last'.op \in {"cleanupAll"} \cup ListenerOps) =>
          /\ tempFiles' = <<>>
          /\ {last'.attempts[i].path : i \in 1..Len(last'.attempts)} = Range(tempFiles)
          /\ \A i \in 1..Len(last'.attempts) :
                 last'.attempts[i].ret = "false" =>
                     ExistsSync(disk', last'.attempts[i].path)]_vars

C26_Witness ==
    /\ last.op = "cleanupAll"
    /\ tempFiles = <<>>
    /\ Len(last.attempts) = 2
    /\ \E i \in 1..Len(last.attempts) :
           /\ last.attempts[i].ret = "false"
           /\ ExistsSync(disk, last.attempts[i].path)

\* C28: when the listener of SIGINT, SIGTERM, uncaughtException or
\* unhandledRejection has called process.exit, the process ends through the
\* 'exit' listener: cleanupAllSync runs a second time, finds the registry empty,
\* attempts nothing and returns 0, and leaves the file system, the registry and
\* the exit status of the first listener as they are.
C28_SecondRunIsEmpty ==
    [][(/\ phase = "exiting" /\ phase' # "exiting"
        /\ cause \in Signals \cup FaultEvents
        /\ handlers[cause] > 0) =>
          /\ phase' = "ended"
          /\ tempFiles = <<>>
          /\ last'.op = "exit" /\ last'.ret = "ok"
          /\ last'.count = 0 /\ last'.attempts = <<>>
          /\ disk' = disk
          /\ tempFiles' = tempFiles
          /\ exitCode' = exitCode
          /\ exitCode = HandlerStatus(cause)]_vars

C28_Witness ==
    /\ phase = "ended" /\ cause = "SIGINT"
    /\ last.op = "exit" /\ last.count = 0
    /\ exitCode = 0
    /\ failedAtTerm # {}
    /\ failedAtTerm \subseteq DOMAIN disk

\* C29: a cleanupSync(d) that removes a tracked directory d removes everything
\* under d and deletes d alone from the registry, so the tracked paths under d
\* stay tracked although they are gone; a cleanupAllSync returns true for every
\* tracked path that was already gone when it started and counts it.
C29_StaleEntriesCounted ==
    [][/\ (/\ last'.op = "cleanupOne" /\ last'.ret = "true"
           /\ last'.tracked /\ last'.kind = "dir") =>
             /\ ~ExistsSync(disk', last'.path)
             /\ Descendants(disk', last'.path) = {}
             /\ tempFiles' = SetDelete(tempFiles, last'.path)
             /\ \A q \in Range(tempFiles) :
                    IsUnder(q, last'.path) =>
                        q \in Range(tempFiles') /\ ~ExistsSync(disk', q)
       /\ last'.op = "cleanupAll" =>
             /\ last'.count = CountRet(last'.attempts, "true")
             /\ \A q \in Range(tempFiles) \ DOMAIN disk :
                    \E i \in 1..Len(last'.attempts) :
                        /\ last'.attempts[i].path = q
                        /\ last'.attempts[i].ret = "true"]_vars

C29_Witness ==
    /\ last.op = "cleanupAll"
    /\ Len(last.attempts) = 1 /\ last.count = 1
    /\ Len(last.attempts[1].path) = 3
    /\ DOMAIN disk = {TmpDir, UserFile}
    /\ nextId = 2

(***************************************************************************)
(* cleanupSync on any path: a caller may pass a path it did not get from    *)
(* this module, such as a file of its own or a directory that was there     *)
(***************************************************************************)
\* every path cleanupSync can be called with
AnyPaths == DOMAIN disk \cup Range(tempFiles) \cup {MissingPath}

CleanNext ==
    \/ \E options \in WriteOptions : Write("text", options, "none")
    \/ MkTempDir("none")
    \/ \E p \in AnyPaths : \E failing \in FailingSets({p}) : CleanupOne(p, failing)
    \/ \E p \in Range(tempFiles) : Exclude(p)

CleanSpec == Init /\ [][CleanNext]_vars

\* C27 as stated: cleanupSync(p) on a path p that exists removes p and returns
\* true, whether or not p is tracked.
C27_Original ==
    [][(last'.op = "cleanupOne" /\ ExistsSync(disk, last'.path)) =>
          /\ last'.ret = "true"
          /\ ~ExistsSync(disk', last'.path)]_vars

\* C27: cleanupSync(p) on a path p that exists and whose removal does not fail
\* removes p (a directory with everything under it) and returns true, whether
\* or not p is tracked and whether or not a call of this module created it.
C27_CleanupOneRemovesAnyPath ==
    [][last'.op = "cleanupOne" =>
        \A p \in {last'.path} \cap AnyPaths : \A F \in FailingSets({p}) :
          (/\ ExistsSync(disk, p)
           /\ ~RemovalFails(disk, F, p)
           /\ CleanupOne(p, F)) =>
             /\ last'.ret = "true"
             /\ ~ExistsSync(disk', p)
             /\ Descendants(disk', p) = {}
             /\ p \notin Range(tempFiles')]_vars

C27_Witness ==
    /\ last.op = "cleanupOne" /\ last.path = UserFile
    /\ ~last.tracked /\ last.kind = "file" /\ last.ret = "true"
    /\ ~ExistsSync(disk, UserFile)
    /\ tempFiles # <<>>

(***************************************************************************)
(* Writers whose target directory is still to be made, then cleanup and     *)
(* termination                                                              *)
(***************************************************************************)
\* the values of the dir option here: a directory beside the temporary files
\* and a directory inside each directory tempDirSync returned
SubDirs ==
    {OutDir} \cup {d \o << <<"sub">> >> : d \in {q \in Range(tempFiles) :
                                                 ExistsSync(disk, q) /\ IsDirectory(disk, q)}}

\* what a writer called with dir and fault leaves behind
CreatedIn(op, o, dir, fault) ==
    /\ Becomes(o.st)
    /\ nextId' = nextId + o.ids
    /\ run' = -1
    /\ last' = [NoCall EXCEPT !.op = op, !.path = o.path, !.ret = o.ret,
                              !.err = o.err, !.cleanup = TRUE,
                              !.args = [NoArgs EXCEPT !.dir = dir, !.fault = fault]]
    /\ UNCHANGED <<phase, exitCode, cause, trackedAtTerm, failedAtTerm>>

\* tempWriteSync('text', '.txt', {dir})
WriteIn(dir, fault) ==
    /\ CanCreate
    /\ CreatedIn("write",
           TempWriteSync(St, "text", <<".", "txt">>,
               [dir |-> dir, prefix |-> DefaultPrefix, cleanup |-> TRUE,
                mode |-> Undefined],
               RandomId(nextId + 1), Timestamp, fault),
           dir, fault)

\* tempWritePatternSync('text', 'data-{random}.txt', {dir})
WritePatternIn(dir, fault) ==
    /\ CanCreate
    /\ CreatedIn("writeWithPattern",
           TempWritePatternSync(St, "text", <<"data-", "{random}", ".", "txt">>,
               [dir |-> dir, cleanup |-> TRUE],
               RandomId(nextId + 1), Timestamp, fault),
           dir, fault)

DirNext ==
    \/ MkTempDir("none")
    \/ \E dir \in SubDirs, fault \in {"none", "write"} : WriteIn(dir, fault)
    \/ \E dir \in SubDirs, fault \in {"none", "write"} : WritePatternIn(dir, fault)
    \/ \E failing \in FailingSets(Range(tempFiles)) : CleanupAll(failing)
    \/ NormalExit
    \/ \E e \in Signals \cup FaultEvents, failing \in FailingSets(Range(tempFiles)) :
          Handled(e, failing)
    \/ \E failing \in FailingSets(Range(tempFiles)) : ExitListener(failing)
    \/ ExitPlain

DirSpec == Init /\ [][DirNext]_vars

\* the directories a writer made for its files
MadeDirs(dk) == {q \in DOMAIN dk : q = OutDir \/ q[Len(q)] = <<"sub">>}

\* what a writer's step says about its target directory: the directory exists
\* afterwards, also when writeFileSync failed, and the registry gains the
\* returned file path at most, never a directory
WriterKeepsDirUntracked ==
    (last'.op \in {"write", "writeWithPattern"}) =>
        /\ ExistsSync(disk', last'.args.dir) /\ IsDirectory(disk', last'.args.dir)
        /\ \A q \in Prefixes(last'.args.dir) : ExistsSync(disk', q)
        /\ Range(tempFiles') \ Range(tempFiles) \subseteq {last'.path} \ {NoPath}
        /\ \A q \in Range(tempFiles') \ Range(tempFiles) : ~IsDirectory(disk', q)
        /\ last'.ret = "ok" => last'.path \in Range(tempFiles')

\* C30 as stated: a writer given a dir that does not exist makes it, registers
\* the file path only, and leaves the directory there when the write fails; a
\* cleanupAllSync, direct or from a listener, leaves every such directory on
\* disk.
C30_Original ==
    [][/\ WriterKeepsDirUntracked
       /\ (last'.op \in {"cleanupAll"} \cup ListenerOps) =>
             MadeDirs(disk) \subseteq DOMAIN disk']_vars

\* C30: a writer given a dir that does not exist makes it, registers the file
\* path only, and leaves the directory there when the write fails; a
\* cleanupAllSync, direct or from a listener, leaves every such directory on
\* disk that does not lie inside a tracked directory.
C30_MadeDirsStay ==
    [][/\ WriterKeepsDirUntracked
       /\ (last'.op \in {"cleanupAll"} \cup ListenerOps) =>
             \A q \in MadeDirs(disk) :
                 (\A p \in Range(tempFiles) : ~IsUnder(q, p)) => ExistsSync(disk', q)]_vars

C30_Witness ==
    /\ phase = "ended" /\ cause = "SIGTERM" /\ last.op = "exit"
    /\ tempFiles = <<>>
    /\ DOMAIN disk = {TmpDir, UserFile, OutDir}
    /\ nextId = 2

====
